---------------------------- MODULE Spec2Model ----------------------------
(***************************************************************************)
(* Model of gmail-housekeeping: the command-line entry point (index.ts)    *)
(* driving GmailClient.authenticate -> searchEmails -> batchDeleteEmails   *)
(* (gmail-client.ts).  The mailbox provider, the OAuth2 endpoints, the     *)
(* operator and the files on disk are the environment: every answer they   *)
(* can give is a nondeterministic choice.                                  *)
(*                                                                         *)
(* JavaScript strings are sequences of one-character strings; message ids  *)
(* are positive naturals, 0 standing for a missing (falsy) id.             *)
(***************************************************************************)
EXTENDS Integers, Sequences, FiniteSets, TLC

\* ------------------------------------------------------------------------
\* Bounds of the model
\* ------------------------------------------------------------------------

\* longest listing the provider returns to one listing request
MaxListing == 2

\* longest id list handed directly to batchDeleteEmails
MaxIds == 2500

\* ------------------------------------------------------------------------
\* Program constants
\* ------------------------------------------------------------------------

\* gmail-client.ts:197  const batchSize = 1000
batchSize == 1000

\* gmail-client.ts:148  Math.min(maxResults, 500)
ApiListLimit == 500

\* gmail-client.ts:140  config.maxResults || 500
SearchDefaultMax == 500

\* index.ts:10  maxResults: 500
CliDefaultMax == 500

\* gmail-client.ts:169  snippet.substring(0, 100)
SnippetMax == 100

\* gmail-client.ts:156  if (message.id): a missing id is falsy
NoId == 0

\* ------------------------------------------------------------------------
\* JavaScript values
\* ------------------------------------------------------------------------

Min(a, b) == IF a <= b THEN a ELSE b

\* a number, NaN or undefined, as one record shape
Num(n) == [t |-> "num", v |-> n]
NaN == [t |-> "nan", v |-> 0]
Undefined == [t |-> "undefined", v |-> 0]

\* an optional array: undefined, or the array of its items
NoArray == [defined |-> FALSE, items |-> <<>>]
Array(s) == [defined |-> TRUE, items |-> s]

\* truthiness of a number-or-undefined: 0, NaN and undefined are falsy
TruthyNum(x) == x.t = "num" /\ x.v # 0

\* Math.min(a, 500) on a number or NaN (NaN propagates)
MathMin(x, n) == IF x.t = "num" THEN Num(Min(x.v, n)) ELSE NaN

Digits == <<"0", "1", "2", "3", "4", "5", "6", "7", "8", "9">>
IsDigit(c) == \E k \in 1..10 : Digits[k] = c
DigitVal(c) == (CHOOSE k \in 1..10 : Digits[k] = c) - 1
IsSpace(c) == c = " "

RECURSIVE TrimStart(_)
TrimStart(s) ==
    IF s # <<>> /\ IsSpace(Head(s)) THEN TrimStart(Tail(s)) ELSE s

RECURSIVE TrimEnd(_)
TrimEnd(s) ==
    IF s # <<>> /\ IsSpace(s[Len(s)])
    THEN TrimEnd(SubSeq(s, 1, Len(s) - 1))
    ELSE s

\* String.prototype.trim
Trim(s) == TrimEnd(TrimStart(s))

\* String.prototype.split(','): always at least one piece
RECURSIVE SplitFrom(_, _, _)
SplitFrom(s, k, cur) ==
    IF k > Len(s) THEN <<cur>>
    ELSE IF s[k] = "," THEN <<cur>> \o SplitFrom(s, k + 1, <<>>)
    ELSE SplitFrom(s, k + 1, Append(cur, s[k]))

Split(s) == SplitFrom(s, 1, <<>>)

\* value of the longest digit prefix of s, with the number of digits read
RECURSIVE DigitPrefix(_, _, _)
DigitPrefix(s, acc, n) ==
    IF s # <<>> /\ IsDigit(Head(s))
    THEN DigitPrefix(Tail(s), 10 * acc + DigitVal(Head(s)), n + 1)
    ELSE <<acc, n>>

\* parseInt(s, 10): leading blanks, an optional sign, the digit prefix;
\* NaN when no digit is read
ParseInt(s) ==
    LET t == TrimStart(s)
        neg == t # <<>> /\ Head(t) = "-"
        sgn == t # <<>> /\ Head(t) \in {"-", "+"}
        u == IF sgn THEN Tail(t) ELSE t
        p == DigitPrefix(u, 0, 0)
    IN  IF p[2] = 0 THEN NaN
        ELSE Num(IF neg THEN 0 - p[1] ELSE p[1])

\* Array.prototype.indexOf on the argument list: 0-based, -1 when absent
IndexOf(a, tok) ==
    IF \E k \in 1..Len(a) : a[k] = tok
    THEN (CHOOSE k \in 1..Len(a) :
            a[k] = tok /\ \A j \in 1..(k - 1) : a[j] # tok) - 1
    ELSE 0 - 1

Includes(a, tok) == \E k \in 1..Len(a) : a[k] = tok

\* a[i] for a 0-based index i is defined and a non-empty string
TruthyAt(a, i) == i + 1 \in 1..Len(a) /\ a[i + 1] # <<>>

MapTrim(pieces) == [k \in 1..Len(pieces) |-> Trim(pieces[k])]

\* ------------------------------------------------------------------------
\* Command line
\* ------------------------------------------------------------------------

FlagDryRun == <<"-", "-", "d", "r", "y", "-", "r", "u", "n">>
FlagSenders == <<"-", "-", "s", "e", "n", "d", "e", "r", "s">>
FlagSubjects == <<"-", "-", "s", "u", "b", "j", "e", "c", "t", "s">>
FlagMaxResults ==
    <<"-", "-", "m", "a", "x", "-", "r", "e", "s", "u", "l", "t", "s">>
FlagHelp == <<"-", "-", "h", "e", "l", "p">>
FlagH == <<"-", "h">>

\* index.ts:8-29: the configuration parsed from the arguments
ParseConfig(a) ==
    LET si == IndexOf(a, FlagSenders)
        ui == IndexOf(a, FlagSubjects)
        mi == IndexOf(a, FlagMaxResults)
    IN  [ dryRun |-> Includes(a, FlagDryRun),
          senders |->
            IF si # 0 - 1 /\ TruthyAt(a, si + 1)
            THEN Array(MapTrim(Split(a[si + 2])))
            ELSE NoArray,
          subjects |->
            IF ui # 0 - 1 /\ TruthyAt(a, ui + 1)
            THEN Array(MapTrim(Split(a[ui + 2])))
            ELSE NoArray,
          maxResults |->
            IF mi # 0 - 1 /\ TruthyAt(a, mi + 1)
            THEN ParseInt(a[mi + 2])
            ELSE Num(CliDefaultMax) ]

\* index.ts:32
HelpRequested(a) == Includes(a, FlagHelp) \/ Includes(a, FlagH)

\* variant of ConfigInvalid: the validation of index.ts:69 left out
ConfigInvalid_Never(c) == FALSE

\* index.ts:69: an array, even an empty one, is truthy
ConfigInvalid(c) == ~c.senders.defined /\ ~c.subjects.defined


\* ------------------------------------------------------------------------
\* Inputs and environment
\* ------------------------------------------------------------------------

SenderArgs ==
    { <<>>,
      <<FlagSenders>>,
      <<FlagSenders, <<>>>>,
      <<FlagSenders, <<" ", "a", ",", "b", " ">>>> }

SubjectArgs ==
    { <<>>,
      <<FlagSubjects, <<"s">>>> }

MaxResultsArgs ==
    { <<>>,
      <<FlagMaxResults, <<"0">>>>,
      <<FlagMaxResults, <<"-", "3">>>>,
      <<FlagMaxResults, <<"1", "0", "0", "0">>>>,
      <<FlagMaxResults, <<"x">>>> }

DryRunArgs == { <<>>, <<FlagDryRun>> }

HelpArgs == { <<>>, <<FlagHelp>>, <<FlagH>> }

\* process.argv.slice(2)
ArgLists ==
    { s \o u \o m \o d \o h :
        s \in SenderArgs, u \in SubjectArgs, m \in MaxResultsArgs,
        d \in DryRunArgs, h \in HelpArgs }

\* configurations handed directly to searchEmails by a caller
DirectArrays == { NoArray, Array(<<>>), Array(<<<<"a">>>>) }

DirectMaxResults ==
    { Undefined, NaN } \cup { Num(n) : n \in {0 - 1, 0, 1, 499, 500, 501, 1000} }

DirectConfigs ==
    [ dryRun : {FALSE}, senders : DirectArrays, subjects : DirectArrays,
      maxResults : DirectMaxResults ]

\* id lists handed directly to batchDeleteEmails: the lengths around the
\* chunk boundaries, as distinct ids and as repeating ids
DirectLengths == { n \in 0..MaxIds : n % batchSize \in {0, 1, 500, 999} }

DirectIdLists ==
    { [k \in 1..n |-> k] : n \in DirectLengths }
        \cup { [k \in 1..n |-> (k % 3) + 1] : n \in DirectLengths }

\* token.json: absent, unreadable or not JSON, or a previously saved token
TokenFiles == { "absent", "malformed", "saved" }

\* tokens the token endpoint hands out
NewTokens == { "fresh" }

\* where authenticate() finds the client id and secret
CredentialSources == { "file", "badfile", "env", "none" }

\* process.env.AUTH_CODE: unset or empty, or a code
AuthCodeEnv == { <<>>, <<"c">> }

\* what the operator types at the prompt
PromptAnswers == { <<>>, <<" ">>, <<" ", "c", " ">> }

Fill(n) == [k \in 1..n |-> "x"]

\* the thread id of a listed message, when the listing carries one
NoThread == [defined |-> FALSE, s |-> <<>>]
Thread(s) == [defined |-> TRUE, s |-> s]

\* the entries the provider may list: one without an id, one without a
\* thread id, one with both
Candidates ==
    { [id |-> NoId, threadId |-> Thread(<<"t">>)],
      [id |-> 1, threadId |-> Thread(<<"t">>)],
      [id |-> 2, threadId |-> NoThread] }

Listings == UNION { [1..n -> Candidates] : n \in 0..MaxListing }

\* response.data.messages: missing, or a listing
ListResponses ==
    { [defined |-> FALSE, items |-> <<>>] }
        \cup { [defined |-> TRUE, items |-> l] : l \in Listings }

\* msgResponse.data.snippet of a message: missing for odd ids, longer than
\* the preview for even ids
ProviderSnippet(id) ==
    IF id % 2 = 1 THEN [defined |-> FALSE, s |-> <<>>]
    ELSE [defined |-> TRUE, s |-> Fill(SnippetMax + 50)]

\* what a failed metadata fetch throws
FetchCauses == { [isError |-> TRUE, text |-> "notfound"] }

\* what a failed deletion throws: an Error with a message, or another value
Causes == { [isError |-> TRUE, text |-> "quota"],
            [isError |-> FALSE, text |-> "reset"] }

\* ------------------------------------------------------------------------
\* State
\* ------------------------------------------------------------------------

VARIABLES
    entry,        \* which operation the run starts with
    pc,           \* position of the single thread of control
    args,         \* process.argv.slice(2)
    config,       \* CleanupConfig / the argument of searchEmails
    exitStatus,   \* "running", "0" or "1"
    authState,    \* "notcalled", "running", "returned", "thrown"
    searchState,  \* likewise for searchEmails
    deleteState,  \* likewise for batchDeleteEmails
    tokenFile,    \* contents of token.json
    tokenWrites,  \* number of writeFileSync('token.json') that succeeded
    authUrls,     \* authorization URLs generated and printed
    prompts,      \* times the operator was asked for the code
    code,         \* the authorization code in hand
    newToken,     \* the token obtained by the exchange, "" before
    net,          \* every request issued to the provider, in order
    inflight,     \* requests issued and not yet answered
    messageIds,   \* searchEmails: response.data.messages || []
    idx,          \* searchEmails: position of the for-of loop (1-based)
    matches,      \* searchEmails: matches pushed so far / returned
    delIds,       \* batchDeleteEmails: messageIds
    dryRunArg,    \* batchDeleteEmails: dryRun
    i,            \* batchDeleteEmails: loop variable
    result,       \* batchDeleteEmails: CleanupResult
    replies,      \* the answer to each answered request of net, in order
    consoleErr,   \* console.error lines of the catch blocks, in order
    reported      \* the CleanupResult main prints, when it does

vars ==
    << entry, pc, args, config, exitStatus, authState, searchState,
       deleteState, tokenFile, tokenWrites, authUrls, prompts, code,
       newToken, net, inflight, replies, messageIds, idx, matches, delIds,
       dryRunArg, i, result, consoleErr, reported >>

mainVars == << args, config, exitStatus, reported >>
authVars == << tokenFile, tokenWrites, authUrls, prompts, code, newToken >>
searchVars == << messageIds, idx, matches >>
deleteVars == << delIds, dryRunArg, i, result >>
callVars == << authState, searchState, deleteState >>

\* types.ts:14-18
CleanupResult(total, deleted, errors) ==
    [totalFound |-> total, deleted |-> deleted, errors |-> errors]

NoResult == [defined |-> FALSE, value |-> CleanupResult(0, 0, <<>>)]
SomeResult(r) == [defined |-> TRUE, value |-> r]

\* a request to the provider or to the token endpoint
Request(op, q, ids, maxResults) ==
    [op |-> op, q |-> q, ids |-> ids, maxResults |-> maxResults]

\* the answer to a request: success, or failure with what was thrown
Reply(ok, text) == [ok |-> ok, text |-> text]

EmptyConfig ==
    [dryRun |-> FALSE, senders |-> NoArray, subjects |-> NoArray,
     maxResults |-> Undefined]

InitCommon ==
    /\ exitStatus = "running"
    /\ authState = "notcalled"
    /\ searchState = "notcalled"
    /\ deleteState = "notcalled"
    /\ tokenWrites = 0
    /\ authUrls = 0
    /\ prompts = 0
    /\ code = <<>>
    /\ newToken = ""
    /\ net = <<>>
    /\ inflight = 0
    /\ replies = <<>>
    /\ messageIds = <<>>
    /\ idx = 1
    /\ matches = <<>>
    /\ i = 0
    /\ result = CleanupResult(0, 0, <<>>)
    /\ consoleErr = <<>>
    /\ reported = NoResult

\* the command-line tool is started
InitMain ==
    /\ entry = "main"
    /\ pc = "main:parse"
    /\ args \in ArgLists
    /\ config = EmptyConfig
    /\ tokenFile \in TokenFiles
    /\ delIds = <<>>
    /\ dryRunArg = FALSE
    /\ InitCommon

\* a caller invokes searchEmails on a client
InitSearch ==
    /\ entry = "searchEmails"
    /\ pc = "search:build"
    /\ args = <<>>
    /\ config \in DirectConfigs
    /\ tokenFile = "saved"
    /\ delIds = <<>>
    /\ dryRunArg = FALSE
    /\ InitCommon

\* a caller invokes batchDeleteEmails on a client
InitDelete ==
    /\ entry = "batchDeleteEmails"
    /\ pc = "delete:start"
    /\ args = <<>>
    /\ config = EmptyConfig
    /\ tokenFile = "saved"
    /\ delIds \in DirectIdLists
    /\ dryRunArg \in BOOLEAN
    /\ InitCommon

Init == InitMain \/ InitSearch \/ InitDelete


\* ------------------------------------------------------------------------
\* main (index.ts)
\* ------------------------------------------------------------------------

\* index.ts:5-29: parse the command line into the configuration
Main_ParseArgs ==
    /\ pc = "main:parse"
    /\ UNCHANGED replies
    /\ config' = ParseConfig(args)
    /\ pc' = "main:parsed"
    /\ UNCHANGED << entry, args, exitStatus, reported, authVars, searchVars,
                    deleteVars, callVars, net, inflight, consoleErr >>

\* index.ts:31-66: --help or -h prints the usage and exits 0
Main_Help ==
    /\ pc = "main:parsed"
    /\ UNCHANGED replies
    /\ HelpRequested(args)
    /\ exitStatus' = "0"
    /\ pc' = "done"
    /\ UNCHANGED << entry, args, config, reported, authVars, searchVars,
                    deleteVars, callVars, net, inflight, consoleErr >>

\* index.ts:68-73: neither senders nor subjects: exit 1
Main_ValidationFail ==
    /\ pc = "main:parsed"
    /\ UNCHANGED replies
    /\ ~HelpRequested(args)
    /\ ConfigInvalid(config)
    /\ exitStatus' = "1"
    /\ pc' = "done"
    /\ UNCHANGED << entry, args, config, reported, authVars, searchVars,
                    deleteVars, callVars, net, inflight, consoleErr >>

\* index.ts:75-79: construct the client and call authenticate()
Main_CallAuthenticate ==
    /\ pc = "main:parsed"
    /\ UNCHANGED replies
    /\ ~HelpRequested(args)
    /\ ~ConfigInvalid(config)
    /\ authState' = "running"
    /\ pc' = "auth:credentials"
    /\ UNCHANGED << entry, mainVars, authVars, searchVars, deleteVars,
                    searchState, deleteState, net, inflight, consoleErr >>

\* ------------------------------------------------------------------------
\* GmailClient.authenticate (gmail-client.ts:21-111)
\* ------------------------------------------------------------------------

\* authenticate() throws; main's catch (index.ts:126-129) exits 1
AuthThrows ==
    /\ authState' = "thrown"
    /\ exitStatus' = "1"
    /\ pc' = "done"

\* authenticate() returns; main goes on to the search (index.ts:80-82)
AuthReturns ==
    /\ authState' = "returned"
    /\ searchState' = "running"
    /\ pc' = "search:build"

\* gmail-client.ts:27-46: client id and secret from credentials.json or the
\* environment; neither, or an unusable file, throws
Auth_ResolveCredentials ==
    /\ pc = "auth:credentials"
    /\ UNCHANGED replies
    /\ \E src \in CredentialSources :
          IF src \in {"file", "env"}
          THEN /\ pc' = "auth:token"
               /\ UNCHANGED << exitStatus, authState >>
          ELSE AuthThrows
    /\ UNCHANGED << entry, args, config, reported, authVars, searchVars,
                    deleteVars, searchState, deleteState, net, inflight,
                    consoleErr >>

\* gmail-client.ts:49: no token.json
Auth_NoSavedToken ==
    /\ pc = "auth:token"
    /\ UNCHANGED replies
    /\ tokenFile = "absent"
    /\ pc' = "auth:url"
    /\ UNCHANGED << entry, mainVars, authVars, searchVars, deleteVars,
                    callVars, net, inflight, consoleErr >>

\* gmail-client.ts:50: token.json cannot be read or parsed: outside the try
Auth_SavedTokenUnreadable ==
    /\ pc = "auth:token"
    /\ UNCHANGED replies
    /\ tokenFile = "malformed"
    /\ AuthThrows
    /\ UNCHANGED << entry, args, config, reported, authVars, searchVars,
                    deleteVars, searchState, deleteState, net, inflight,
                    consoleErr >>

\* gmail-client.ts:50-55: load the saved token and probe the profile
Auth_ProbeIssue ==
    /\ pc = "auth:token"
    /\ UNCHANGED replies
    /\ tokenFile \notin {"absent", "malformed"}
    /\ net' = Append(net, Request("getProfile", <<>>, <<>>, Undefined))
    /\ inflight' = inflight + 1
    /\ pc' = "auth:probe"
    /\ UNCHANGED << entry, mainVars, authVars, searchVars, deleteVars,
                    callVars, consoleErr >>

\* variant of Auth_ProbeOk: the return of gmail-client.ts:56 left out
Auth_ProbeOk_FallsThrough ==
    /\ pc = "auth:probe"
    /\ replies' = Append(replies, Reply(TRUE, ""))
    /\ inflight' = inflight - 1
    /\ pc' = "auth:url"
    /\ UNCHANGED << entry, mainVars, authVars, searchVars, deleteVars,
                    callVars, net, consoleErr >>

\* gmail-client.ts:55-56: the probe succeeds: return
Auth_ProbeOk ==
    /\ pc = "auth:probe"
    /\ replies' = Append(replies, Reply(TRUE, ""))
    /\ inflight' = inflight - 1
    /\ AuthReturns
    /\ UNCHANGED << entry, mainVars, authVars, searchVars, deleteVars,
                    deleteState, net, consoleErr >>

\* variant of Auth_ProbeFail: the probe's error is not caught
Auth_ProbeFail_Propagates ==
    /\ pc = "auth:probe"
    /\ replies' = Append(replies, Reply(FALSE, ""))
    /\ inflight' = inflight - 1
    /\ AuthThrows
    /\ UNCHANGED << entry, args, config, reported, authVars, searchVars,
                    deleteVars, searchState, deleteState, net, consoleErr >>

\* gmail-client.ts:57-60: the probe fails: fall through to re-authorization
Auth_ProbeFail ==
    /\ pc = "auth:probe"
    /\ replies' = Append(replies, Reply(FALSE, ""))
    /\ inflight' = inflight - 1
    /\ pc' = "auth:url"
    /\ UNCHANGED << entry, mainVars, authVars, searchVars, deleteVars,
                    callVars, net, consoleErr >>

\* gmail-client.ts:63-91: generate and print the authorization URL, take the
\* code from AUTH_CODE or ask the operator
Auth_GenerateAuthUrl ==
    /\ pc = "auth:url"
    /\ UNCHANGED replies
    /\ authUrls' = authUrls + 1
    /\ \E envCode \in AuthCodeEnv :
          IF envCode # <<>>
          THEN /\ code' = envCode
               /\ prompts' = prompts
               /\ pc' = "auth:exchange"
          ELSE /\ code' = code
               /\ prompts' = prompts + 1
               /\ pc' = "auth:prompt"
    /\ UNCHANGED << entry, mainVars, tokenFile, tokenWrites, newToken,
                    searchVars, deleteVars, callVars, net, inflight,
                    consoleErr >>

\* gmail-client.ts:93-102: the operator answers; an empty code throws
Auth_PromptAnswer ==
    /\ pc = "auth:prompt"
    /\ UNCHANGED replies
    /\ \E answer \in PromptAnswers :
          /\ code' = Trim(answer)
          /\ IF Trim(answer) = <<>>
             THEN AuthThrows
             ELSE /\ pc' = "auth:exchange"
                  /\ UNCHANGED << exitStatus, authState >>
    /\ UNCHANGED << entry, args, config, reported, tokenFile, tokenWrites,
                    authUrls, prompts, newToken, searchVars, deleteVars,
                    searchState, deleteState, net, inflight, consoleErr >>

\* gmail-client.ts:105: exchange the code for a token
Auth_ExchangeIssue ==
    /\ pc = "auth:exchange"
    /\ UNCHANGED replies
    /\ net' = Append(net, Request("getToken", <<>>, <<>>, Undefined))
    /\ inflight' = inflight + 1
    /\ pc' = "auth:exchanging"
    /\ UNCHANGED << entry, mainVars, authVars, searchVars, deleteVars,
                    callVars, consoleErr >>

\* gmail-client.ts:105-106: the exchange succeeds
Auth_ExchangeOk ==
    /\ pc = "auth:exchanging"
    /\ replies' = Append(replies, Reply(TRUE, ""))
    /\ inflight' = inflight - 1
    /\ \E tok \in NewTokens : newToken' = tok
    /\ pc' = "auth:save"
    /\ UNCHANGED << entry, mainVars, tokenFile, tokenWrites, authUrls,
                    prompts, code, searchVars, deleteVars, callVars, net,
                    consoleErr >>

\* gmail-client.ts:105: the exchange fails: authenticate() throws
Auth_ExchangeFail ==
    /\ pc = "auth:exchanging"
    /\ replies' = Append(replies, Reply(FALSE, ""))
    /\ inflight' = inflight - 1
    /\ AuthThrows
    /\ UNCHANGED << entry, args, config, reported, authVars, searchVars,
                    deleteVars, searchState, deleteState, net, consoleErr >>

\* gmail-client.ts:108-110: write token.json and return
Auth_SaveToken ==
    /\ pc = "auth:save"
    /\ UNCHANGED replies
    /\ tokenFile' = newToken
    /\ tokenWrites' = tokenWrites + 1
    /\ AuthReturns
    /\ UNCHANGED << entry, mainVars, authUrls, prompts, code, newToken,
                    searchVars, deleteVars, deleteState, net, inflight,
                    consoleErr >>

\* gmail-client.ts:109: writeFileSync throws: authenticate() throws
Auth_SaveTokenFail ==
    /\ pc = "auth:save"
    /\ UNCHANGED replies
    /\ AuthThrows
    /\ UNCHANGED << entry, args, config, reported, authVars, searchVars,
                    deleteVars, searchState, deleteState, net, inflight,
                    consoleErr >>


\* ------------------------------------------------------------------------
\* GmailClient.searchEmails (gmail-client.ts:116-178)
\* ------------------------------------------------------------------------

\* gmail-client.ts:121-133: one OR-group per non-empty filter
QueryParts(c) ==
    (IF c.senders.defined /\ Len(c.senders.items) > 0
     THEN << [kind |-> "from", terms |-> c.senders.items] >>
     ELSE <<>>)
    \o
    (IF c.subjects.defined /\ Len(c.subjects.items) > 0
     THEN << [kind |-> "subject", terms |-> c.subjects.items] >>
     ELSE <<>>)

\* gmail-client.ts:140: config.maxResults || 500
EffectiveMax(x) == IF TruthyNum(x) THEN x ELSE Num(SearchDefaultMax)

\* variant of ListMaxResults: the Math.min of gmail-client.ts:148 left out
ListMaxResults_Unclamped(x) == EffectiveMax(x)

\* gmail-client.ts:148: the maxResults of the outgoing listing request
ListMaxResults(x) == MathMin(EffectiveMax(x), ApiListLimit)

\* gmail-client.ts:165-170: the match pushed for a fetched candidate
MatchOf(cand, snippet) ==
    [ id |-> cand.id,
      threadId |-> IF cand.threadId.defined THEN cand.threadId.s ELSE <<>>,
      snippet |->
        LET sn == IF snippet.defined THEN snippet.s ELSE <<>>
        IN  SubSeq(sn, 1, Min(Len(sn), SnippetMax)) ]

\* searchEmails throws: to the direct caller, or to main's catch (exit 1)
SearchThrows ==
    /\ searchState' = "thrown"
    /\ exitStatus' = IF entry = "main" THEN "1" ELSE exitStatus
    /\ pc' = "done"

\* gmail-client.ts:121-149: build the query; without a term throw, else
\* issue the listing request
Search_BuildQuery ==
    /\ pc = "search:build"
    /\ UNCHANGED replies
    /\ IF QueryParts(config) = <<>>
       THEN /\ SearchThrows
            /\ UNCHANGED << net, inflight >>
       ELSE /\ net' = Append(net, Request("list", QueryParts(config), <<>>,
                                          ListMaxResults(config.maxResults)))
            /\ inflight' = inflight + 1
            /\ pc' = "search:listing"
            /\ UNCHANGED << exitStatus, searchState >>
    /\ UNCHANGED << entry, args, config, reported, authVars, searchVars,
                    deleteVars, authState, deleteState, consoleErr >>

\* gmail-client.ts:145-152: the listing arrives
Search_ListOk ==
    /\ pc = "search:listing"
    /\ replies' = Append(replies, Reply(TRUE, ""))
    /\ inflight' = inflight - 1
    /\ \E r \in ListResponses :
          messageIds' = IF r.defined THEN r.items ELSE <<>>
    /\ matches' = <<>>
    /\ idx' = 1
    /\ pc' = "search:loop"
    /\ UNCHANGED << entry, mainVars, authVars, deleteVars, callVars, net,
                    consoleErr >>

\* gmail-client.ts:145: the listing request fails: searchEmails throws
Search_ListFail ==
    /\ pc = "search:listing"
    /\ replies' = Append(replies, Reply(FALSE, ""))
    /\ inflight' = inflight - 1
    /\ SearchThrows
    /\ UNCHANGED << entry, args, config, reported, authVars, searchVars,
                    deleteVars, authState, deleteState, net, consoleErr >>

\* gmail-client.ts:156: a listed entry without an id is passed over
Search_SkipNoId ==
    /\ pc = "search:loop"
    /\ UNCHANGED replies
    /\ idx <= Len(messageIds)
    /\ messageIds[idx].id = NoId
    /\ idx' = idx + 1
    /\ UNCHANGED << entry, pc, mainVars, authVars, messageIds, matches,
                    deleteVars, callVars, net, inflight, consoleErr >>

\* gmail-client.ts:158-163: fetch the metadata of the next candidate
Search_FetchIssue ==
    /\ pc = "search:loop"
    /\ UNCHANGED replies
    /\ idx <= Len(messageIds)
    /\ messageIds[idx].id # NoId
    /\ net' = Append(net, Request("get", <<>>, <<messageIds[idx].id>>,
                                  Undefined))
    /\ inflight' = inflight + 1
    /\ pc' = "search:fetching"
    /\ UNCHANGED << entry, mainVars, authVars, searchVars, deleteVars,
                    callVars, consoleErr >>

\* gmail-client.ts:165-170: the fetch succeeds: push the match
Search_FetchOk ==
    /\ pc = "search:fetching"
    /\ replies' = Append(replies, Reply(TRUE, ""))
    /\ inflight' = inflight - 1
    /\ matches' = Append(matches,
                         MatchOf(messageIds[idx],
                                 ProviderSnippet(messageIds[idx].id)))
    /\ idx' = idx + 1
    /\ pc' = "search:loop"
    /\ UNCHANGED << entry, mainVars, authVars, messageIds, deleteVars,
                    callVars, net, consoleErr >>

\* variant of Search_FetchFail: the fetch's error is not caught
Search_FetchFail_Propagates ==
    /\ pc = "search:fetching"
    /\ inflight' = inflight - 1
    /\ \E cause \in FetchCauses :
          replies' = Append(replies, Reply(FALSE, cause.text))
    /\ SearchThrows
    /\ UNCHANGED << entry, args, config, reported, authVars, searchVars,
                    deleteVars, authState, deleteState, net, consoleErr >>

\* gmail-client.ts:171-173: the fetch fails: log it and go on
Search_FetchFail ==
    /\ pc = "search:fetching"
    /\ inflight' = inflight - 1
    /\ \E cause \in FetchCauses :
          /\ consoleErr' = Append(consoleErr,
                                  [kind |-> "fetch",
                                   id |-> messageIds[idx].id,
                                   text |-> cause.text])
          /\ replies' = Append(replies, Reply(FALSE, cause.text))
    /\ idx' = idx + 1
    /\ pc' = "search:loop"
    /\ UNCHANGED << entry, mainVars, authVars, messageIds, matches,
                    deleteVars, callVars, net >>

\* gmail-client.ts:177: return the matches
Search_Return ==
    /\ pc = "search:loop"
    /\ UNCHANGED replies
    /\ idx > Len(messageIds)
    /\ searchState' = "returned"
    /\ pc' = IF entry = "main" THEN "main:found" ELSE "done"
    /\ UNCHANGED << entry, mainVars, authVars, searchVars, deleteVars,
                    authState, deleteState, net, inflight, consoleErr >>

\* ------------------------------------------------------------------------
\* main, after the search (index.ts:88-125)
\* ------------------------------------------------------------------------

\* index.ts:90-93: nothing found: return
Main_NoMatches ==
    /\ pc = "main:found"
    /\ UNCHANGED replies
    /\ Len(matches) = 0
    /\ exitStatus' = "0"
    /\ pc' = "done"
    /\ UNCHANGED << entry, args, config, reported, authVars, searchVars,
                    deleteVars, callVars, net, inflight, consoleErr >>

\* index.ts:104-107: a dry run stops after the preview
Main_DryRun ==
    /\ pc = "main:found"
    /\ UNCHANGED replies
    /\ Len(matches) # 0
    /\ config.dryRun
    /\ exitStatus' = "0"
    /\ pc' = "done"
    /\ UNCHANGED << entry, args, config, reported, authVars, searchVars,
                    deleteVars, callVars, net, inflight, consoleErr >>

\* index.ts:115: matches.map(m => m.id)
MatchIds(ms) == [k \in 1..Len(ms) |-> ms[k].id]

\* variant of Main_CallDelete: the dry-run return of index.ts:104-107 does
\* not stop the deletion
Main_CallDelete_IgnoresDryRun ==
    /\ pc = "main:found"
    /\ UNCHANGED replies
    /\ Len(matches) # 0
    /\ delIds' = MatchIds(matches)
    /\ dryRunArg' = FALSE
    /\ deleteState' = "running"
    /\ pc' = "delete:start"
    /\ UNCHANGED << entry, mainVars, authVars, searchVars, i, result,
                    authState, searchState, net, inflight, consoleErr >>

\* index.ts:109-117: call batchDeleteEmails(ids of the matches, false)
Main_CallDelete ==
    /\ pc = "main:found"
    /\ UNCHANGED replies
    /\ Len(matches) # 0
    /\ ~config.dryRun
    /\ delIds' = MatchIds(matches)
    /\ dryRunArg' = FALSE
    /\ deleteState' = "running"
    /\ pc' = "delete:start"
    /\ UNCHANGED << entry, mainVars, authVars, searchVars, i, result,
                    authState, searchState, net, inflight, consoleErr >>

\* index.ts:119-125: print the summary; main returns
Main_Report ==
    /\ pc = "main:report"
    /\ UNCHANGED replies
    /\ reported' = SomeResult(result)
    /\ exitStatus' = "0"
    /\ pc' = "done"
    /\ UNCHANGED << entry, args, config, authVars, searchVars, deleteVars,
                    callVars, net, inflight, consoleErr >>

\* ------------------------------------------------------------------------
\* GmailClient.batchDeleteEmails (gmail-client.ts:183-218)
\* ------------------------------------------------------------------------

\* Array.prototype.slice(a, b) for 0 <= a <= b
Slice(s, a, b) == SubSeq(s, a + 1, Min(b, Len(s)))

\* variant of Batch: a chunk that runs one id into the next
Batch_Overlapping(ids, k) == Slice(ids, k, k + batchSize + 1)

\* gmail-client.ts:199: messageIds.slice(i, i + batchSize)
Batch(ids, k) == Slice(ids, k, k + batchSize)

\* gmail-client.ts:198: i += batchSize
NextChunk(k) == k + batchSize

\* gmail-client.ts:211: the message recorded for a failed chunk; cause.text
\* is error.message of an Error and String(error) of any other value
ErrorMsg(cause) == << "Error deleting batch: ", cause.text >>

\* variant of AddDeleted: counts a full chunk whatever the chunk's size
AddDeleted_FullChunk(r, n) == [r EXCEPT !.deleted = r.deleted + batchSize]

\* gmail-client.ts:208: result.deleted += batch.length
AddDeleted(r, n) == [r EXCEPT !.deleted = r.deleted + n]

\* variant of AddError: the message is logged but not recorded
AddError_Dropped(r, msg) == r

\* gmail-client.ts:212: result.errors.push(errorMsg)
AddError(r, msg) == [r EXCEPT !.errors = Append(r.errors, msg)]

\* batchDeleteEmails returns: to the direct caller, or to main
DeleteReturns ==
    /\ deleteState' = "returned"
    /\ pc' = IF entry = "main" THEN "main:report" ELSE "done"

\* variant of Delete_Start: the dry-run return of gmail-client.ts:190-193
\* left out
Delete_Start_NoDryRunReturn ==
    /\ pc = "delete:start"
    /\ UNCHANGED replies
    /\ result' = CleanupResult(Len(delIds), 0, <<>>)
    /\ i' = 0
    /\ pc' = "delete:loop"
    /\ UNCHANGED << entry, mainVars, authVars, searchVars, delIds,
                    dryRunArg, callVars, net, inflight, consoleErr >>

\* gmail-client.ts:184-198: the result is set up; a dry run returns it
Delete_Start ==
    /\ pc = "delete:start"
    /\ UNCHANGED replies
    /\ result' = CleanupResult(Len(delIds), 0, <<>>)
    /\ i' = 0
    /\ IF dryRunArg
       THEN DeleteReturns
       ELSE /\ pc' = "delete:loop"
            /\ UNCHANGED deleteState
    /\ UNCHANGED << entry, mainVars, authVars, searchVars, delIds,
                    dryRunArg, authState, searchState, net, inflight,
                    consoleErr >>

\* gmail-client.ts:198-207: request the deletion of the next chunk
Delete_ChunkIssue ==
    /\ pc = "delete:loop"
    /\ UNCHANGED replies
    /\ i < Len(delIds)
    /\ net' = Append(net, Request("batchDelete", <<>>, Batch(delIds, i),
                                  Undefined))
    /\ inflight' = inflight + 1
    /\ pc' = "delete:deleting"
    /\ UNCHANGED << entry, mainVars, authVars, searchVars, deleteVars,
                    callVars, consoleErr >>

\* gmail-client.ts:208-209: the chunk is deleted
Delete_ChunkOk ==
    /\ pc = "delete:deleting"
    /\ replies' = Append(replies, Reply(TRUE, ""))
    /\ inflight' = inflight - 1
    /\ result' = AddDeleted(result, Len(Batch(delIds, i)))
    /\ i' = NextChunk(i)
    /\ pc' = "delete:loop"
    /\ UNCHANGED << entry, mainVars, authVars, searchVars, delIds,
                    dryRunArg, callVars, net, consoleErr >>

\* gmail-client.ts:210-214: the chunk fails: record the error and go on
Delete_ChunkFail ==
    /\ pc = "delete:deleting"
    /\ inflight' = inflight - 1
    /\ \E cause \in Causes :
          /\ result' = AddError(result, ErrorMsg(cause))
          /\ consoleErr' = Append(consoleErr,
                                  [kind |-> "delete", id |-> NoId,
                                   text |-> cause.text])
          /\ replies' = Append(replies, Reply(FALSE, cause.text))
    /\ i' = NextChunk(i)
    /\ pc' = "delete:loop"
    /\ UNCHANGED << entry, mainVars, authVars, searchVars, delIds,
                    dryRunArg, callVars, net >>

\* gmail-client.ts:217: return the result
Delete_Return ==
    /\ pc = "delete:loop"
    /\ UNCHANGED replies
    /\ i >= Len(delIds)
    /\ DeleteReturns
    /\ UNCHANGED << entry, mainVars, authVars, searchVars, deleteVars,
                    authState, searchState, net, inflight, consoleErr >>

\* ------------------------------------------------------------------------
\* Specification
\* ------------------------------------------------------------------------

Next ==
    \/ Main_ParseArgs
    \/ Main_Help
    \/ Main_ValidationFail
    \/ Main_CallAuthenticate
    \/ Auth_ResolveCredentials
    \/ Auth_NoSavedToken
    \/ Auth_SavedTokenUnreadable
    \/ Auth_ProbeIssue
    \/ Auth_ProbeOk
    \/ Auth_ProbeFail
    \/ Auth_GenerateAuthUrl
    \/ Auth_PromptAnswer
    \/ Auth_ExchangeIssue
    \/ Auth_ExchangeOk
    \/ Auth_ExchangeFail
    \/ Auth_SaveToken
    \/ Auth_SaveTokenFail
    \/ Search_BuildQuery
    \/ Search_ListOk
    \/ Search_ListFail
    \/ Search_SkipNoId
    \/ Search_FetchIssue
    \/ Search_FetchOk
    \/ Search_FetchFail
    \/ Search_Return
    \/ Main_NoMatches
    \/ Main_DryRun
    \/ Main_CallDelete
    \/ Main_Report
    \/ Delete_Start
    \/ Delete_ChunkIssue
    \/ Delete_ChunkOk
    \/ Delete_ChunkFail
    \/ Delete_Return

Spec == Init /\ [][Next]_vars


\* ------------------------------------------------------------------------
\* Reading the history of requests and answers
\* ------------------------------------------------------------------------

\* positions in net of the requests of one kind
ReqIdx(op) == { k \in 1..Len(net) : net[k].op = op }

\* the same, as an increasing sequence starting from position k
RECURSIVE IdxSeq(_, _)
IdxSeq(op, k) ==
    IF k > Len(net) THEN <<>>
    ELSE (IF net[k].op = op THEN <<k>> ELSE <<>>) \o IdxSeq(op, k + 1)

Answered(k) == k <= Len(replies)
Succeeded(k) == Answered(k) /\ replies[k].ok
Failed(k) == Answered(k) /\ ~replies[k].ok

\* concatenation of the id lists of the requests at the positions ks
RECURSIVE ConcatIds(_)
ConcatIds(ks) ==
    IF ks = <<>> THEN <<>> ELSE net[Head(ks)].ids \o ConcatIds(Tail(ks))

\* the positions of ks whose request succeeded / failed, in order
RECURSIVE OkOnly(_)
OkOnly(ks) ==
    IF ks = <<>> THEN <<>>
    ELSE (IF Succeeded(Head(ks)) THEN <<Head(ks)>> ELSE <<>>)
            \o OkOnly(Tail(ks))

RECURSIVE FailedOnly(_)
FailedOnly(ks) ==
    IF ks = <<>> THEN <<>>
    ELSE (IF Failed(Head(ks)) THEN <<Head(ks)>> ELSE <<>>)
            \o FailedOnly(Tail(ks))

DeleteReqs == IdxSeq("batchDelete", 1)
GetReqs == IdxSeq("get", 1)

\* number of chunks of at most 1000 that n ids make
Ceil1000(n) == (n + 999) \div 1000

\* ------------------------------------------------------------------------
\* C1
\* ------------------------------------------------------------------------

\* C1: in a run of the command-line tool, a batch-deletion request is in
\* the history only when authenticate() has returned, searchEmails() has
\* returned at least one match and --dry-run is not among the arguments;
\* every other request precedes it; the ids of the deletion requests are,
\* in order, exactly the ids whose metadata fetch succeeded (the ids of the
\* matches).  When authenticate() throws, no listing, metadata or deletion
\* request has been made and the exit status is 1.  With --dry-run no
\* deletion request is ever made.
C1_DeleteOnlyAfterAuthAndSearch ==
    entry = "main" =>
      /\ ReqIdx("batchDelete") # {} =>
           /\ authState = "returned"
           /\ searchState = "returned"
           /\ Len(matches) >= 1
           /\ ~Includes(args, FlagDryRun)
           /\ \A d \in ReqIdx("batchDelete") :
                \A k \in 1..Len(net) :
                    net[k].op # "batchDelete" => k < d /\ Answered(k)
           /\ ConcatIds(DeleteReqs) = ConcatIds(OkOnly(GetReqs))
           /\ ConcatIds(DeleteReqs) = [k \in 1..Len(matches) |-> matches[k].id]
      /\ authState = "thrown" =>
           /\ exitStatus = "1"
           /\ ReqIdx("list") \cup ReqIdx("get") \cup ReqIdx("batchDelete") = {}
      /\ Includes(args, FlagDryRun) => ReqIdx("batchDelete") = {}

\* a run that deleted the one match it found after another candidate's
\* metadata fetch had failed
C1_Witness ==
    /\ entry = "main"
    /\ pc = "done"
    /\ ReqIdx("batchDelete") # {}
    /\ FailedOnly(GetReqs) # <<>>
    /\ Len(ConcatIds(DeleteReqs)) = 1

\* ------------------------------------------------------------------------
\* C2
\* ------------------------------------------------------------------------

\* C2: batchDeleteEmails(ids, true) returns {totalFound: N, deleted: 0,
\* errors: []} for the N ids it is given and issues no request at all.
C2_DryRunDeletesNothing ==
    (entry = "batchDeleteEmails" /\ dryRunArg) =>
      /\ net = <<>>
      /\ deleteState # "thrown"
      /\ pc = "done" =>
           /\ deleteState = "returned"
           /\ result.totalFound = Len(delIds)
           /\ result.deleted = 0
           /\ result.errors = <<>>

\* a dry run over more than one chunk's worth of ids has returned
C2_Witness ==
    /\ entry = "batchDeleteEmails"
    /\ dryRunArg
    /\ deleteState = "returned"
    /\ Len(delIds) > 1000

\* ------------------------------------------------------------------------
\* C3
\* ------------------------------------------------------------------------

RECURSIVE SumLens(_)
SumLens(ks) ==
    IF ks = <<>> THEN 0 ELSE Len(net[Head(ks)].ids) + SumLens(Tail(ks))

FailureMessages(ks) ==
    [ j \in 1..Len(ks) |-> << "Error deleting batch: ", replies[ks[j]].text >> ]

\* C3: when a non-dry-run batchDeleteEmails over N ids has returned,
\* totalFound = N, deleted is the sum of the sizes of the chunks whose
\* request succeeded, errors holds one message per failed chunk in chunk
\* order, and every chunk was attempted whatever failed before it; so
\* deleted <= totalFound, with equality exactly when errors is empty.
C3_PartialFailureAccounting ==
    (deleteState = "returned" /\ ~dryRunArg) =>
      /\ result.totalFound = Len(delIds)
      /\ result.deleted = SumLens(OkOnly(DeleteReqs))
      /\ result.errors = FailureMessages(FailedOnly(DeleteReqs))
      /\ Len(DeleteReqs) = Ceil1000(Len(delIds))
      /\ \A j \in 1..Len(DeleteReqs) : Answered(DeleteReqs[j])
      /\ result.deleted <= result.totalFound
      /\ (result.deleted = result.totalFound) <=> (result.errors = <<>>)

\* 2500 ids, the second chunk failed: 1500 deleted and one error
C3_Witness ==
    /\ deleteState = "returned"
    /\ ~dryRunArg
    /\ Len(delIds) = 2500
    /\ Len(DeleteReqs) = 3
    /\ Succeeded(DeleteReqs[1])
    /\ Failed(DeleteReqs[2])
    /\ Succeeded(DeleteReqs[3])
    /\ result = CleanupResult(2500, 1500,
                              << << "Error deleting batch: ", "quota" >> >>)

\* ------------------------------------------------------------------------
\* C4
\* ------------------------------------------------------------------------

\* C4: a non-dry-run batchDeleteEmails never has two requests in flight;
\* the chunks requested so far are, concatenated in issue order, a prefix
\* of the input (so no chunk is requested twice), each of at most 1000 ids
\* and all but the last of the input of exactly 1000; when it has returned
\* there were exactly ceil(N/1000) requests and they concatenate to the
\* whole input.
C4_ChunkedSequentialNoRetry ==
    /\ inflight \in {0, 1}
    /\ (deleteState # "notcalled" /\ ~dryRunArg) =>
         LET all == ConcatIds(DeleteReqs)
         IN  /\ Len(all) <= Len(delIds)
             /\ all = SubSeq(delIds, 1, Len(all))
             /\ \A j \in 1..Len(DeleteReqs) :
                   /\ Len(net[DeleteReqs[j]].ids) \in 1..1000
                   /\ (Len(net[DeleteReqs[j]].ids) < 1000
                         => /\ j = Len(DeleteReqs)
                            /\ Len(all) = Len(delIds))
             /\ deleteState = "returned" =>
                   /\ Len(DeleteReqs) = Ceil1000(Len(delIds))
                   /\ all = delIds

\* 2500 ids went out as 1000, 1000 and 500, the first request having failed
C4_Witness ==
    /\ entry = "batchDeleteEmails"
    /\ deleteState = "returned"
    /\ Len(delIds) = 2500
    /\ Len(DeleteReqs) = 3
    /\ Failed(DeleteReqs[1])
    /\ Len(net[DeleteReqs[3]].ids) = 500


\* ------------------------------------------------------------------------
\* C5
\* ------------------------------------------------------------------------

\* the listed ids that are fetched: the entries that carry an id, in order
RECURSIVE ListedIds(_)
ListedIds(l) ==
    IF l = <<>> THEN <<>>
    ELSE (IF Head(l).id # 0 THEN <<Head(l).id>> ELSE <<>>)
            \o ListedIds(Tail(l))

FetchFailureLines(ks) ==
    [ j \in 1..Len(ks) |->
        [kind |-> "fetch", id |-> net[ks[j]].ids[1],
         text |-> replies[ks[j]].text] ]

\* C5 as claimed: the CleanupResult reported at the end of a run has one
\* entry in errors for every failed metadata fetch and every failed chunk.
C5_AllFailuresInReportedErrors ==
    (entry = "main" /\ reported.defined) =>
      Len(reported.value.errors)
        = Len(FailedOnly(GetReqs)) + Len(FailedOnly(DeleteReqs))

\* C5 as amended: a failed metadata fetch and a failed chunk deletion are
\* caught where they occur and never end the loop around them (every listed
\* id is fetched, every chunk is requested, neither call throws because of
\* them); a failed fetch is only written to the error stream, a failed
\* chunk is written there and recorded in the result; the errors of the
\* CleanupResult reported at the end of the run are exactly the messages of
\* the failed chunks, in order, and hold nothing for the failed fetches.
C5_DeleteFailuresReportedFetchFailuresLogged ==
    /\ searchState = "thrown" => GetReqs = <<>>
    /\ deleteState # "thrown"
    /\ searchState = "returned" =>
         /\ ConcatIds(GetReqs) = ListedIds(messageIds)
         /\ \A j \in 1..Len(GetReqs) : Answered(GetReqs[j])
    /\ (deleteState = "returned" /\ ~dryRunArg) =>
         /\ Len(DeleteReqs) = Ceil1000(Len(delIds))
         /\ \A j \in 1..Len(DeleteReqs) : Answered(DeleteReqs[j])
    /\ SelectSeq(consoleErr, LAMBDA e : e.kind = "fetch")
         = FetchFailureLines(FailedOnly(GetReqs))
    /\ Len(SelectSeq(consoleErr, LAMBDA e : e.kind = "delete"))
         = Len(FailedOnly(DeleteReqs))
    /\ result.errors = FailureMessages(FailedOnly(DeleteReqs))
    /\ (entry = "main" /\ pc = "done" /\ deleteState = "returned") =>
         reported.defined
    /\ reported.defined =>
         /\ reported.value = result
         /\ reported.value.errors = FailureMessages(FailedOnly(DeleteReqs))

\* a run that reported its result after a failed fetch and a failed chunk
C5_Witness ==
    /\ entry = "main"
    /\ reported.defined
    /\ FailedOnly(GetReqs) # <<>>
    /\ FailedOnly(DeleteReqs) # <<>>
    /\ Len(reported.value.errors) = 1

\* ------------------------------------------------------------------------
\* C6
\* ------------------------------------------------------------------------

\* the argument that follows the first --max-results, <<>> when there is none
MaxResultsArg ==
    IF \E k \in 1..(Len(args) - 1) : args[k] = FlagMaxResults
    THEN args[(CHOOSE k \in 1..(Len(args) - 1) :
                 /\ args[k] = FlagMaxResults
                 /\ \A j \in 1..(k - 1) : args[j] # FlagMaxResults) + 1]
    ELSE <<>>

\* C6 as claimed: the listing request carries min(maxResults, 500) for every
\* maxResults the caller supplies (0, negative and NaN included) and 500
\* when none is supplied.
C6_CarriesMinOfInputAnd500 ==
    \A k \in ReqIdx("list") :
        LET x == config.maxResults
            out == net[k].maxResults
        IN  /\ x.t = "undefined" => out = [t |-> "num", v |-> 500]
            /\ x.t = "nan" => out = [t |-> "nan", v |-> 0]
            /\ x.t = "num" =>
                 out = [t |-> "num", v |-> IF x.v <= 500 THEN x.v ELSE 500]

\* C6 as amended: the listing request carries 500 when maxResults is not
\* supplied, is 0 or is NaN (a non-numeric --max-results), and
\* min(maxResults, 500) for every other number, negative ones included; it
\* never carries more than 500.  On the command line: 1000 goes out as 500,
\* -3 as -3, and 0, a non-number or no value as 500.
C6_ClampedWithFalsyDefault ==
    \A k \in ReqIdx("list") :
        LET x == config.maxResults
            out == net[k].maxResults
        IN  /\ out.t = "num"
            /\ out.v <= 500
            /\ (x.t = "num" /\ x.v # 0) =>
                 out.v = IF x.v <= 500 THEN x.v ELSE 500
            /\ (x.t # "num" \/ x.v = 0) => out.v = 500
            /\ entry = "main" =>
                 /\ MaxResultsArg = <<"1", "0", "0", "0">> => out.v = 500
                 /\ MaxResultsArg = <<"-", "3">> => out.v = 0 - 3
                 /\ MaxResultsArg \in {<<>>, <<"0">>, <<"x">>} => out.v = 500

\* --max-results 0 on the command line went out as 500
C6_Witness ==
    /\ entry = "main"
    /\ MaxResultsArg = <<"0">>
    /\ config.maxResults = [t |-> "num", v |-> 0]
    /\ \E k \in ReqIdx("list") : net[k].maxResults.v = 500

\* ------------------------------------------------------------------------
\* C7
\* ------------------------------------------------------------------------

\* neither a non-empty senders filter nor a non-empty subjects filter
NoFilter ==
    /\ entry \in {"main", "searchEmails"}
    /\ ~(config.senders.defined /\ config.senders.items # <<>>)
    /\ ~(config.subjects.defined /\ config.subjects.items # <<>>)

\* C7 as claimed: without a non-empty filter no request is ever made,
\* authenticate() is not called, searchEmails throws and the command-line
\* tool ends with a non-zero exit status.
C7_NoFilterFailsNonZero ==
    NoFilter =>
      /\ net = <<>>
      /\ authState = "notcalled"
      /\ pc = "done" =>
           IF entry = "main" THEN exitStatus = "1"
           ELSE searchState = "thrown"

\* C7 as amended: without a non-empty filter no request is ever made and
\* authenticate() is not called; searchEmails throws; the command-line tool
\* ends with exit status 1, unless --help or -h is among the arguments, in
\* which case it ends with exit status 0.
C7_NoFilterFailsUnlessHelp ==
    NoFilter =>
      /\ net = <<>>
      /\ authState = "notcalled"
      /\ pc = "done" =>
           IF entry = "main"
           THEN exitStatus =
                  IF Includes(args, FlagHelp) \/ Includes(args, FlagH)
                  THEN "0" ELSE "1"
           ELSE searchState = "thrown"

\* the tool was run with --senders "" and no help flag, and exited with 1
C7_Witness ==
    /\ entry = "main"
    /\ pc = "done"
    /\ NoFilter
    /\ Includes(args, FlagSenders)
    /\ exitStatus = "1"

\* ------------------------------------------------------------------------
\* C8
\* ------------------------------------------------------------------------

\* C8: the metadata requests made so far are, in order, a prefix of the
\* listed ids (each listed entry is fetched at most once); the matches are,
\* in order, exactly the ids whose fetch succeeded; once the listing has
\* been returned searchEmails does not throw; when it has returned every
\* listed id has been fetched, so the result is the listing without the
\* entries whose fetch failed.
C8_MatchesAreTheFetchedSubsequence ==
    entry \in {"main", "searchEmails"} =>
      LET got == ConcatIds(GetReqs)
          listed == ListedIds(messageIds)
      IN  /\ Len(got) <= Len(listed)
          /\ got = SubSeq(listed, 1, Len(got))
          /\ [k \in 1..Len(matches) |-> matches[k].id]
               = ConcatIds(OkOnly(GetReqs))
          /\ (\E k \in ReqIdx("list") : Succeeded(k)) =>
               searchState # "thrown"
          /\ searchState = "returned" =>
               /\ got = listed
               /\ Len(matches) = Len(listed) - Len(FailedOnly(GetReqs))

\* two candidates were listed, one fetch failed, one match was returned
C8_Witness ==
    /\ entry = "searchEmails"
    /\ searchState = "returned"
    /\ Len(ListedIds(messageIds)) = 2
    /\ Len(FailedOnly(GetReqs)) = 1
    /\ Len(matches) = 1

\* ------------------------------------------------------------------------
\* C9
\* ------------------------------------------------------------------------

ProbeFailed == \E k \in ReqIdx("getProfile") : Failed(k)
ProbeSucceeded == \E k \in ReqIdx("getProfile") : Succeeded(k)
AuthDone == authState \in {"returned", "thrown"}

C10_ValidTokenSkipsAuthorization ==
    ProbeSucceeded =>
      /\ authState = "returned"
      /\ authUrls = 0
      /\ prompts = 0
      /\ code = <<>>
      /\ ReqIdx("getToken") = {}
      /\ Cardinality(ReqIdx("getProfile")) = 1
      /\ tokenWrites = 0
      /\ tokenFile = "saved"

\* a run with a valid saved token went on to delete and report
C10_Witness ==
    /\ ProbeSucceeded
    /\ pc = "done"
    /\ reported.defined

=============================================================================
